---- MODULE Spec2Model ----
(***************************************************************************)
(* Model of the stimulus index and tuple corpus of src/data.py:            *)
(* GeirhosStyleTransferDataset, GeirhosTriplets and FakeStimTrials, with   *)
(* the stimulus storage and the four persisted JSON files they share.      *)
(*                                                                         *)
(* Strings are sequences of tokens: one-character strings, and the token   *)
(* ".png" for the file extension.  A Python dict is a sequence of          *)
(* [key, val] entries in insertion order.                                  *)
(*                                                                         *)
(* Storage holds well-formed names only (<shape_spec>-<texture_spec>.png   *)
(* in a shape directory, <shape>_<texture>_<color>.png in the fake         *)
(* directory); shape_dir and fake_dir are the directories the index is     *)
(* built from.  JSON files hold what json.dump wrote: dicts with string    *)
(* keys and lists of strings, which json.load gives back as written.       *)
(* The user may change stimulus files and delete an index file between     *)
(* two calls; the corpus files are left to the program.                    *)
(***************************************************************************)
EXTENDS Integers, Sequences, FiniteSets, TLC

VARIABLES
    stFiles,            \* the files under stimuli-shape/style-transfer: [dir, name]
    fkFiles,            \* the file names under stimuli-shape/fake
    shapeClassesJson,   \* geirhos_shape_classes.json
    tripletsJson,       \* geirhos_triplets.json
    stimClassesJson,    \* fake_stimulus_classes.json
    trialsJson,         \* fake_trials.json
    obj,                \* the object made by the last constructor call
    ret,                \* the outcome of the last getitem call
    removed,            \* the files the last constructor call passed to os.remove
    changes,            \* how many times the user edited storage and index files
    roots,              \* the storage roots that exist as directories
    written,            \* the JSON files the last constructor call wrote
    item,               \* the name the last getitem(int) / __getitem__(idx) returned
    since               \* what the index step of the constructors did since the
                        \* user last changed the stimulus files, per stimulus set

vars == <<stFiles, fkFiles, shapeClassesJson, tripletsJson, stimClassesJson,
          trialsJson, obj, ret, removed, changes, roots, written, item, since>>

\* ---------------------------------------------------------------- bounds
MaxFiles == 3      \* most stimulus files in the style-transfer tree
MaxFake == 5       \* most stimulus files in the fake directory
MaxChanges == 1    \* most edits the user makes to storage and index files
MaxIdx == 2        \* largest integer index passed to a positional getitem

\* ---------------------------------------------------------------- strings
PNG == ".png"
Digits == {"0", "1", "2", "3", "4", "5", "6", "7", "8", "9"}

StartsWith(s, p) == Len(p) <= Len(s) /\ SubSeq(s, 1, Len(p)) = p
EndsWith(s, p) == Len(p) <= Len(s) /\ SubSeq(s, Len(s) - Len(p) + 1, Len(s)) = p

\* str.split(sep) for a one-token separator
RECURSIVE Split(_, _)
Split(s, sep) ==
    IF \E i \in 1..Len(s) : s[i] = sep
    THEN LET i == CHOOSE k \in 1..Len(s) : s[k] = sep /\ \A j \in 1..(k - 1) : s[j] # sep
         IN  <<SubSeq(s, 1, i - 1)>> \o Split(SubSeq(s, i + 1, Len(s)), sep)
    ELSE <<s>>

\* str.replace('.png', '')
IsNotPng(c) == c # PNG
ReplacePng(s) == SelectSeq(s, IsNotPng)

\* ''.join([i for i in s if not i.isdigit()])
IsNotDigit(c) == c \notin Digits
StripDigits(s) == SelectSeq(s, IsNotDigit)

\* the code point of the first character of a token
Ord(c) ==
    CASE c = "-" -> 45 [] c = PNG -> 46 [] c = "/" -> 47
      [] c = "0" -> 48 [] c = "1" -> 49 [] c = "2" -> 50 [] c = "3" -> 51
      [] c = "4" -> 52 [] c = "5" -> 53 [] c = "6" -> 54 [] c = "7" -> 55
      [] c = "8" -> 56 [] c = "9" -> 57
      [] c = "X" -> 88 [] c = "_" -> 95
      [] c = "a" -> 97 [] c = "b" -> 98 [] c = "c" -> 99 [] c = "d" -> 100
      [] c = "g" -> 103 [] c = "l" -> 108 [] c = "q" -> 113 [] c = "r" -> 114
      [] c = "s" -> 115 [] c = "w" -> 119 [] c = "x" -> 120 [] c = "y" -> 121

\* s < t for two str: the first differing character decides, a proper prefix is smaller
RECURSIVE StrLess(_, _)
StrLess(s, t) ==
    IF t = <<>> THEN FALSE
    ELSE IF s = <<>> THEN TRUE
    ELSE IF Head(s) = Head(t) THEN StrLess(Tail(s), Tail(t))
    ELSE Ord(Head(s)) < Ord(Head(t))

\* sorted(list) for a list of str
RECURSIVE Insert(_, _)
Insert(sorted, k) ==
    IF sorted = <<>> THEN <<k>>
    ELSE IF StrLess(k, Head(sorted)) THEN <<k>> \o sorted
    ELSE <<Head(sorted)>> \o Insert(Tail(sorted), k)

RECURSIVE Sorted(_)
Sorted(list) ==
    IF list = <<>> THEN <<>> ELSE Insert(Sorted(Tail(list)), Head(list))

\* ---------------------------------------------------------------- dicts
Keys(d) == [i \in 1..Len(d) |-> d[i].key]
KeySet(d) == {d[i].key : i \in 1..Len(d)}
HasKey(d, k) == k \in KeySet(d)
Get(d, k) == d[CHOOSE i \in 1..Len(d) : d[i].key = k].val
\* d[k] = v : an existing key keeps its position
Put(d, k, v) ==
    IF HasKey(d, k)
    THEN [i \in 1..Len(d) |-> IF d[i].key = k THEN [key |-> k, val |-> v] ELSE d[i]]
    ELSE Append(d, [key |-> k, val |-> v])
Pop(d, k) == LET keep(e) == e.key # k IN SelectSeq(d, keep)

\* ---------------------------------------------------------------- storage
StyleRoot == <<"stimuli-shape", "/", "style-transfer">>   \* shape_dir
FakeRoot == <<"stimuli-shape", "/", "fake">>              \* fake_dir

StName(shapeSpec, textureSpec) == shapeSpec \o <<"-">> \o textureSpec \o <<PNG>>
FkName(shape, texture, color) == shape \o <<"_">> \o texture \o <<"_">> \o color \o <<PNG>>

\* The style-transfer files a storage may hold, directory by directory.
StUniverse ==
    << [dir |-> <<"c">>, name |-> StName(<<"c", "1">>, <<"d", "1">>)],
       [dir |-> <<"c">>, name |-> StName(<<"c", "1", "0">>, <<"d", "1">>)],
       [dir |-> <<"c">>, name |-> StName(<<"c", "1">>, <<"b", "1">>)],
       [dir |-> <<"c">>, name |-> StName(<<"c", "1">>, <<"c", "1">>)],
       [dir |-> <<"b">>, name |-> StName(<<"b", "1">>, <<"d", "1">>)],
       [dir |-> <<"b">>, name |-> StName(<<"b", "1">>, <<"b", "d", "1">>)] >>

\* The fake files a storage may hold.
FkUniverse ==
    << FkName(<<"s">>, <<"r">>, <<"g">>),
       FkName(<<"s">>, <<"b">>, <<"y">>),
       FkName(<<"s">>, <<"w">>, <<"y">>),
       FkName(<<"q">>, <<"r">>, <<"y">>),
       FkName(<<"q">>, <<"b">>, <<"g">>),
       FkName(<<"x">>, <<"r">>, <<"g">>),
       FkName(<<"q">>, <<"X">>, <<"y">>) >>

Range(s) == {s[i] : i \in 1..Len(s)}

\* os.listdir gives no order: a listing is the universe order or its reverse.
ListingOrders == {"forward", "backward"}
Reverse(s) == [i \in 1..Len(s) |-> s[Len(s) + 1 - i]]
Listing(universe, files, order) ==
    LET present(f) == f \in files
        fwd == SelectSeq(universe, present)
    IN  IF order = "forward" THEN fwd ELSE Reverse(fwd)

StPath(f) == StyleRoot \o <<"/">> \o f.dir \o <<"/">> \o f.name
FkPath(n) == FakeRoot \o <<"/">> \o n

\* glob.glob('stimuli-shape/style-transfer/*/*.png')
GlobAllPng(files, order) ==
    LET isPng(f) == EndsWith(f.name, <<PNG>>)
        hits == SelectSeq(Listing(StUniverse, files, order), isPng)
    IN  [i \in 1..Len(hits) |-> StPath(hits[i])]

\* glob.glob(shape_dir + '/' + shape + '/' + shape_spec + '*.png')
GlobShape(files, order, shape, shape_spec) ==
    LET hit(f) == /\ f.dir = shape
                  /\ StartsWith(f.name, shape_spec)
                  /\ EndsWith(f.name, <<PNG>>)
                  /\ Len(f.name) >= Len(shape_spec) + 1
        hits == SelectSeq(Listing(StUniverse, files, order), hit)
    IN  [i \in 1..Len(hits) |-> StPath(hits[i])]

\* glob.glob(shape_dir + '/*/*' + texture_spec + '.png')
GlobTexture(files, order, texture_spec) ==
    LET hit(f) == EndsWith(f.name, texture_spec \o <<PNG>>)
        hits == SelectSeq(Listing(StUniverse, files, order), hit)
    IN  [i \in 1..Len(hits) |-> StPath(hits[i])]

\* glob.glob(fake_dir + '/*.png')
GlobFake(files, order) ==
    LET isPng(n) == EndsWith(n, <<PNG>>)
        hits == SelectSeq(Listing(FkUniverse, files, order), isPng)
    IN  [i \in 1..Len(hits) |-> FkPath(hits[i])]

Last(s) == s[Len(s)]

\* ---------------------------------------------------------------- style-transfer index
\* the attribute record of one path (data.py 87-91, 215-219)
StImage(image_dir) == Split(image_dir, "/")
StShape(image_dir) == StImage(image_dir)[3]
StFileName(image_dir) == StImage(image_dir)[4]
StTextureSpec(image_dir) == ReplacePng(Split(StFileName(image_dir), "-")[2])
StShapeSpec(image_dir) == Split(StFileName(image_dir), "-")[1]
StTexture(image_dir) == StripDigits(StTextureSpec(image_dir))

StRecord(image_dir) ==
    [shape |-> StShape(image_dir), texture |-> StTexture(image_dir),
     shape_spec |-> StShapeSpec(image_dir),
     texture_spec |-> StTextureSpec(image_dir), dir |-> image_dir]

\* the filter with the digits of the texture instance left in
IsCueConflictSpec(image_dir) == StShape(image_dir) # StTextureSpec(image_dir)

\* Filter images that are not cue-conflict
IsCueConflict(image_dir) == StShape(image_dir) # StTexture(image_dir)

\* the loop that creates shape_classes
RECURSIVE CreateShapeClasses(_, _)
CreateShapeClasses(paths, d) ==
    IF paths = <<>> THEN d
    ELSE LET image_dir == Head(paths)
             d2 == IF IsCueConflict(image_dir)
                   THEN Put(d, StFileName(image_dir), StRecord(image_dir))
                   ELSE d
         IN  CreateShapeClasses(Tail(paths), d2)

\* ---------------------------------------------------------------- triplets
\* the reserved key chosen as the name of a stimulus
AllKeyIsFileName == FkName(<<"s">>, <<"r">>, <<"g">>)

AllKey == <<"a", "l", "l">>     \* the key 'all'

\* the file names of a glob result that pass the anchor and index checks
RECURSIVE Matches(_, _, _)
Matches(paths, image, index) ==
    IF paths = <<>> THEN <<>>
    ELSE LET m == Last(Split(Head(paths), "/"))
             rest == Matches(Tail(paths), image, index)
         IN  IF m = image \/ ~HasKey(index, m) THEN rest ELSE <<m>> \o rest

ShapeMatches(files, order, index, image) ==
    Matches(GlobShape(files, order, Get(index, image).shape, Get(index, image).shape_spec),
            image, index)

TextureMatches(files, order, index, image) ==
    Matches(GlobTexture(files, order, Get(index, image).texture_spec), image, index)

\* for shape_match ...: for texture_match ...: triplet = [image, shape_match, texture_match]
RECURSIVE TripletsRow(_, _, _)
TripletsRow(image, shape_match, tms) ==
    IF tms = <<>> THEN <<>>
    ELSE <<(<<image, shape_match, Head(tms)>>)>> \o TripletsRow(image, shape_match, Tail(tms))

RECURSIVE Triplets(_, _, _)
Triplets(image, sms, tms) ==
    IF sms = <<>> THEN <<>>
    ELSE TripletsRow(image, Head(sms), tms) \o Triplets(image, Tail(sms), tms)

TripletEntry(files, order, index, image) ==
    LET sms == ShapeMatches(files, order, index, image)
        tms == TextureMatches(files, order, index, image)
    IN  [shape_matches |-> sms, texture_matches |-> tms, color_matches |-> <<>>,
         tuples |-> Triplets(image, sms, tms)]

\* the loop over the anchors: triplets_by_image and all_triplets
RECURSIVE GenerateTriplets(_, _, _, _, _)
GenerateTriplets(files, order, index, images, acc) ==
    IF images = <<>> THEN acc
    ELSE LET image == Head(images)
             e == TripletEntry(files, order, index, image)
         IN  GenerateTriplets(files, order, index, Tail(images),
                 [by_image |-> Put(acc.by_image, image, e), all |-> acc.all \o e.tuples])

\* ---------------------------------------------------------------- fake index
FkImage(image_dir) == Split(image_dir, "/")[3]
FkSpecs(image_dir) == Split(ReplacePng(FkImage(image_dir)), "_")
\* the sentinel test without the upper-case marker
HasSentinelLower(image_dir) == <<"x">> \in Range(FkSpecs(image_dir))

HasSentinel(image_dir) ==
    <<"x">> \in Range(FkSpecs(image_dir)) \/ <<"X">> \in Range(FkSpecs(image_dir))
FkRecord(image_dir) ==
    [shape |-> FkSpecs(image_dir)[1], texture |-> FkSpecs(image_dir)[2],
     color |-> FkSpecs(image_dir)[3], dir |-> image_dir]

\* the loop that creates all_stims, deleting every file it reads
RECURSIVE CreateAllStimsRemoveAll(_, _)
CreateAllStimsRemoveAll(paths, acc) ==
    IF paths = <<>> THEN acc
    ELSE LET image_dir == Head(paths)
             acc2 == IF HasSentinel(image_dir)
                     THEN [acc EXCEPT !.removed = @ \cup {FkImage(image_dir)}]
                     ELSE [stims |-> Put(acc.stims, FkImage(image_dir), FkRecord(image_dir)),
                           removed |-> acc.removed \cup {FkImage(image_dir)}]
         IN  CreateAllStimsRemoveAll(Tail(paths), acc2)

\* the loop that creates all_stims; removed collects the os.remove calls
RECURSIVE CreateAllStims(_, _)
CreateAllStims(paths, acc) ==
    IF paths = <<>> THEN acc
    ELSE LET image_dir == Head(paths)
             acc2 == IF HasSentinel(image_dir)
                     THEN [acc EXCEPT !.removed = @ \cup {FkImage(image_dir)}]
                     ELSE [acc EXCEPT !.stims = Put(@, FkImage(image_dir), FkRecord(image_dir))]
         IN  CreateAllStims(Tail(paths), acc2)

\* ---------------------------------------------------------------- trials
\* the shape test without the comparison of the colors
ShapeMatchAnyColor(index, image, m) ==
    LET a == Get(index, image)
        b == Get(index, m)
    IN  /\ ~(m = image \/ a.shape # b.shape)
        /\ ~(a.texture = b.texture)

ShapeMatch(index, image, m) ==
    LET a == Get(index, image)
        b == Get(index, m)
    IN  /\ ~(m = image \/ a.shape # b.shape)
        /\ ~(a.texture = b.texture \/ a.color = b.color)

TextureMatch(index, image, m) ==
    LET a == Get(index, image)
        b == Get(index, m)
    IN  /\ ~(m = image \/ a.texture # b.texture)
        /\ ~(a.shape = b.shape \/ a.color = b.color)

\* the color test that compares the textures only
ColorMatchAnyShape(index, image, m) ==
    LET a == Get(index, image)
        b == Get(index, m)
    IN  /\ ~(m = image)
        /\ ~(a.texture = b.texture)

ColorMatch(index, image, m) ==
    LET a == Get(index, image)
        b == Get(index, m)
    IN  /\ ~(m = image \/ a.color # b.color)
        /\ ~(a.shape = b.shape \/ a.texture = b.texture)

FakeShapeMatches(index, image) ==
    LET ok(m) == ShapeMatch(index, image, m) IN SelectSeq(Keys(index), ok)
FakeTextureMatches(index, image) ==
    LET ok(m) == TextureMatch(index, image, m) IN SelectSeq(Keys(index), ok)
FakeColorMatches(index, image) ==
    LET ok(m) == ColorMatch(index, image, m) IN SelectSeq(Keys(index), ok)

\* the innermost loop with the texture match written in the place of the color match
RECURSIVE TrialsInnerRepeat(_, _, _, _)
TrialsInnerRepeat(image, shape_match, texture_match, cms) ==
    IF cms = <<>> THEN <<>>
    ELSE LET color_match == Head(cms)
             rest == TrialsInnerRepeat(image, shape_match, texture_match, Tail(cms))
         IN  IF color_match = texture_match \/ color_match = shape_match
             THEN rest
             ELSE <<(<<image, shape_match, texture_match, texture_match>>)>> \o rest

\* the innermost loop of "Create trials"
RECURSIVE TrialsInner(_, _, _, _)
TrialsInner(image, shape_match, texture_match, cms) ==
    IF cms = <<>> THEN <<>>
    ELSE LET color_match == Head(cms)
             rest == TrialsInner(image, shape_match, texture_match, Tail(cms))
         IN  IF color_match = texture_match \/ color_match = shape_match
             THEN rest
             ELSE <<(<<image, shape_match, texture_match, color_match>>)>> \o rest

RECURSIVE TrialsMiddle(_, _, _, _)
TrialsMiddle(image, shape_match, tms, cms) ==
    IF tms = <<>> THEN <<>>
    ELSE LET texture_match == Head(tms)
             rest == TrialsMiddle(image, shape_match, Tail(tms), cms)
         IN  IF texture_match = shape_match
             THEN rest
             ELSE TrialsInner(image, shape_match, texture_match, cms) \o rest

RECURSIVE Trials(_, _, _, _)
Trials(image, sms, tms, cms) ==
    IF sms = <<>> THEN <<>>
    ELSE TrialsMiddle(image, Head(sms), tms, cms) \o Trials(image, Tail(sms), tms, cms)

TrialEntry(index, image) ==
    LET sms == FakeShapeMatches(index, image)
        tms == FakeTextureMatches(index, image)
        cms == FakeColorMatches(index, image)
    IN  [shape_matches |-> sms, texture_matches |-> tms, color_matches |-> cms,
         tuples |-> Trials(image, sms, tms, cms)]

RECURSIVE GenerateTrials(_, _, _)
GenerateTrials(index, images, acc) ==
    IF images = <<>> THEN acc
    ELSE LET image == Head(images)
             e == TrialEntry(index, image)
         IN  GenerateTrials(index, Tail(images),
                 [by_image |-> Put(acc.by_image, image, e), all |-> acc.all \o e.tuples])

\* ---------------------------------------------------------------- state
NoFile == [exists |-> FALSE, data |-> <<>>]    \* open() raises FileNotFoundError
File(d) == [exists |-> TRUE, data |-> d]
NoRet == "none"
NoItem == [idx |-> -1, name |-> <<>>]

\* the names of the four JSON files
ShapeClassesFile == "geirhos_shape_classes.json"
TripletsFile == "geirhos_triplets.json"
StimClassesFile == "fake_stimulus_classes.json"
TrialsFile == "fake_trials.json"
NoObj == [class |-> "none", index |-> <<>>, by_image |-> <<>>, all |-> <<>>,
          indexFrom |-> "none", corpusFrom |-> "none"]

StSubsets == {S \in SUBSET Range(StUniverse) : Cardinality(S) <= MaxFiles}
FkSubsets == {S \in SUBSET Range(FkUniverse) : Cardinality(S) <= MaxFake}

\* no JSON file written yet, no object made
Fresh ==
    /\ shapeClassesJson = NoFile
    /\ tripletsJson = NoFile
    /\ stimClassesJson = NoFile
    /\ trialsJson = NoFile
    /\ obj = NoObj
    /\ ret = NoRet
    /\ removed = {}
    /\ changes = 0
    /\ written = {}
    /\ item = NoItem
    /\ since = [style |-> {}, fake |-> {}]

\* the style-transfer root exists and holds files, or does not exist
InitG ==
    /\ \/ roots = {StyleRoot} /\ stFiles \in StSubsets
       \/ roots = {} /\ stFiles = {}
    /\ fkFiles = {}
    /\ Fresh

\* the fake root exists and holds files, or does not exist
InitF ==
    /\ \/ roots = {FakeRoot} /\ fkFiles \in FkSubsets
       \/ roots = {} /\ fkFiles = {}
    /\ stFiles = {}
    /\ Fresh

\* ---------------------------------------------------------------- constructors
\* the try/except around json.load(open('geirhos_shape_classes.json'))
LoadOrCreateShapeClasses(order) ==
    IF shapeClassesJson.exists
    THEN shapeClassesJson.data
    ELSE CreateShapeClasses(GlobAllPng(stFiles, order), <<>>)

\* transform=None or a transform given by the caller
Transforms == {"None", "given"}

\* calculate_dataset_stats('stimuli-shape/style-transfer', 3, False), called
\* for transform=None: os.listdir raises FileNotFoundError on a missing root
StatsRaise(transform) == transform = "None" /\ StyleRoot \notin roots

\* an exception leaves __init__: no object is made, nothing is written
ConstructorRaises ==
    /\ obj' = NoObj
    /\ ret' = "FileNotFoundError"
    /\ removed' = {}
    /\ written' = {}
    /\ item' = NoItem
    /\ UNCHANGED <<stFiles, fkFiles, shapeClassesJson, tripletsJson, stimClassesJson,
                   trialsJson, changes, roots, since>>

\* json.dump in the except branch: the file is written when open() did not find it
Dumped(file, name) == IF file.exists THEN {} ELSE {name}

\* what the index step did, added to what was done since the user last
\* changed the stimulus files
IndexStep(log, index, removedFiles) ==
    log \cup (IF index.exists THEN {"loaded"}
              ELSE IF "built" \in log THEN {"rebuilt"} ELSE {"built"})
        \cup (IF removedFiles # {} THEN {"removed"} ELSE {})

\* GeirhosStyleTransferDataset.__init__
NewGeirhosStyleTransferDataset(order) ==
    \E shape_classes \in {LoadOrCreateShapeClasses(order)} :
    \E raises \in {StatsRaise(transform) : transform \in Transforms} :
        IF raises THEN ConstructorRaises
        ELSE
        /\ shapeClassesJson' = File(shape_classes)
        /\ obj' = [class |-> "GeirhosStyleTransferDataset", index |-> shape_classes,
                   by_image |-> <<>>, all |-> <<>>,
                   indexFrom |-> IF shapeClassesJson.exists THEN "loaded" ELSE "built",
                   corpusFrom |-> "none"]
        /\ ret' = NoRet
        /\ removed' = {}
        /\ written' = Dumped(shapeClassesJson, ShapeClassesFile)
        /\ item' = NoItem
        /\ since' = [since EXCEPT !.style = IndexStep(@, shapeClassesJson, {})]
        /\ UNCHANGED <<stFiles, fkFiles, tripletsJson, stimClassesJson, trialsJson,
                       changes, roots>>

\* the load branch without the pop of 'all'
LoadOrGenerateTripletsKeepAll(order, shape_classes) ==
    IF tripletsJson.exists
    THEN [by_image |-> tripletsJson.data,
          all |-> Get(tripletsJson.data, AllKey)]
    ELSE LET generated == GenerateTriplets(stFiles, order, shape_classes,
                              Keys(shape_classes), [by_image |-> <<>>, all |-> <<>>])
         IN  [by_image |-> Put(generated.by_image, AllKey, generated.all),
              all |-> generated.all]

\* the try/except around json.load(open('geirhos_triplets.json')): the
\* dict triplets_by_image and the list all_triplets it leaves in the object
LoadOrGenerateTriplets(order, shape_classes) ==
    IF tripletsJson.exists
    THEN [by_image |-> Pop(tripletsJson.data, AllKey),
          all |-> Get(tripletsJson.data, AllKey)]
    ELSE LET generated == GenerateTriplets(stFiles, order, shape_classes,
                              Keys(shape_classes), [by_image |-> <<>>, all |-> <<>>])
         IN  [by_image |-> Put(generated.by_image, AllKey, generated.all),
              all |-> generated.all]

\* GeirhosTriplets.__init__
NewGeirhosTriplets(order) ==
    \E shape_classes \in {LoadOrCreateShapeClasses(order)} :
    \E corpus \in {LoadOrGenerateTriplets(order, shape_classes)} :
    \E raises \in {StatsRaise(transform) : transform \in Transforms} :
        IF raises THEN ConstructorRaises
        ELSE
        /\ shapeClassesJson' = File(shape_classes)
        /\ tripletsJson' = IF tripletsJson.exists THEN tripletsJson
                           ELSE File(corpus.by_image)
        /\ obj' = [class |-> "GeirhosTriplets", index |-> shape_classes,
                   by_image |-> corpus.by_image, all |-> corpus.all,
                   indexFrom |-> IF shapeClassesJson.exists THEN "loaded" ELSE "built",
                   corpusFrom |-> IF tripletsJson.exists THEN "loaded" ELSE "built"]
        /\ ret' = NoRet
        /\ removed' = {}
        /\ written' = Dumped(shapeClassesJson, ShapeClassesFile)
                        \cup Dumped(tripletsJson, TripletsFile)
        /\ item' = NoItem
        /\ since' = [since EXCEPT !.style = IndexStep(@, shapeClassesJson, {})]
        /\ UNCHANGED <<stFiles, fkFiles, stimClassesJson, trialsJson, changes, roots>>

\* the index step that never opens fake_stimulus_classes.json
CreateAllStimsAlways(order) ==
    CreateAllStims(GlobFake(fkFiles, order), [stims |-> <<>>, removed |-> {}])

\* the try/except around json.load(open('fake_stimulus_classes.json')):
\* all_stims and the files removed from storage
LoadOrCreateAllStims(order) ==
    IF stimClassesJson.exists
    THEN [stims |-> stimClassesJson.data, removed |-> {}]
    ELSE CreateAllStims(GlobFake(fkFiles, order), [stims |-> <<>>, removed |-> {}])

\* the try/except around json.load(open('fake_trials.json'))
LoadOrGenerateTrials(all_stims) ==
    IF trialsJson.exists
    THEN [by_image |-> Pop(trialsJson.data, AllKey),
          all |-> Get(trialsJson.data, AllKey)]
    ELSE LET generated == GenerateTrials(all_stims, Keys(all_stims),
                                         [by_image |-> <<>>, all |-> <<>>])
         IN  [by_image |-> Put(generated.by_image, AllKey, generated.all),
              all |-> generated.all]

\* FakeStimTrials.__init__; calculate_dataset_stats('stimuli-shape/fake', 3, True)
\* lists no directory and raises nothing
NewFakeStimTrials(order) ==
    \E created \in {LoadOrCreateAllStims(order)} :
    \E corpus \in {LoadOrGenerateTrials(created.stims)} :
        /\ fkFiles' = fkFiles \ created.removed
        /\ stimClassesJson' = File(created.stims)
        /\ trialsJson' = IF trialsJson.exists THEN trialsJson ELSE File(corpus.by_image)
        /\ obj' = [class |-> "FakeStimTrials", index |-> created.stims,
                   by_image |-> corpus.by_image, all |-> corpus.all,
                   indexFrom |-> IF stimClassesJson.exists THEN "loaded" ELSE "built",
                   corpusFrom |-> IF trialsJson.exists THEN "loaded" ELSE "built"]
        /\ ret' = NoRet
        /\ removed' = created.removed
        /\ written' = Dumped(stimClassesJson, StimClassesFile)
                        \cup Dumped(trialsJson, TrialsFile)
        /\ item' = NoItem
        /\ since' = [since EXCEPT !.fake = IndexStep(@, stimClassesJson, created.removed)]
        /\ UNCHANGED <<stFiles, shapeClassesJson, tripletsJson, changes, roots>>

\* ---------------------------------------------------------------- access
\* the paths Image.open can open
Openable == {StPath(f) : f \in stFiles} \cup {FkPath(n) : n \in fkFiles}

\* the outcome of getitem(tuple): self.<index>[id]['dir'] for every id of the
\* tuple raises KeyError on an unknown id, then Image.open raises
\* FileNotFoundError on a path that is no longer in storage
Getitem(index, tuple) ==
    IF \E i \in 1..Len(tuple) : ~HasKey(index, tuple[i]) THEN "KeyError"
    ELSE IF \E i \in 1..Len(tuple) : Get(index, tuple[i]).dir \notin Openable
         THEN "FileNotFoundError"
         ELSE "ok"

\* GeirhosTriplets.getitem(triplet) and FakeStimTrials.getitem(trial), on a
\* tuple of all_triplets / all_trials
GetitemTuple ==
    /\ obj.class \in {"GeirhosTriplets", "FakeStimTrials"}
    /\ \E outcome \in {Getitem(obj.index, obj.all[i]) : i \in 1..Len(obj.all)} :
          ret' = outcome
    /\ item' = NoItem
    /\ UNCHANGED <<stFiles, fkFiles, shapeClassesJson, tripletsJson, stimClassesJson,
                   trialsJson, obj, removed, changes, roots, written, since>>

\* images[idx] on the list of names, then self.<index>[name]['dir'] and
\* Image.open: IndexError past the end of the list, FileNotFoundError on a
\* path that is no longer in storage, else the name is returned
GetitemInt(index, images, idx) ==
    IF idx >= Len(images) THEN [ret |-> "IndexError", item |-> NoItem]
    ELSE IF Get(index, images[idx + 1]).dir \notin Openable
         THEN [ret |-> "FileNotFoundError", item |-> NoItem]
         ELSE [ret |-> "ok", item |-> [idx |-> idx, name |-> images[idx + 1]]]

\* GeirhosStyleTransferDataset.__getitem__(idx): images = sorted(keys)
DatasetGetitem(idx) ==
    /\ obj.class = "GeirhosStyleTransferDataset"
    /\ \E r \in {GetitemInt(obj.index, Sorted(Keys(obj.index)), idx)} :
          ret' = r.ret /\ item' = r.item
    /\ UNCHANGED <<stFiles, fkFiles, shapeClassesJson, tripletsJson, stimClassesJson,
                   trialsJson, obj, removed, changes, roots, written, since>>

\* FakeStimTrials.getitem(trial) for an int: name = list(self.all_stims.keys())[trial]
FakeGetitemInt(trial) ==
    /\ obj.class = "FakeStimTrials"
    /\ \E r \in {GetitemInt(obj.index, Keys(obj.index), trial)} :
          ret' = r.ret /\ item' = r.item
    /\ UNCHANGED <<stFiles, fkFiles, shapeClassesJson, tripletsJson, stimClassesJson,
                   trialsJson, obj, removed, changes, roots, written, since>>

\* ---------------------------------------------------------------- the user
\* Between two constructor calls the user may add or remove a stimulus file
\* (a file put under a missing root makes the root) and delete a persisted
\* index; the program itself never deletes a JSON file.
\* One edit is what the user does between two calls.
\* the storages one added or removed file away from files
OneFileAway(files, universe, max) ==
    {files \cup {f} : f \in {g \in Range(universe) : g \notin files /\ Cardinality(files) < max}}
        \cup {files \ {f} : f \in files}

\* the user edits the style-transfer tree and the index file of the
\* style-transfer set: at most one stimulus file added or removed, the index
\* file deleted (to have it rebuilt) or kept
UserEditsStyleTransfer ==
    /\ changes < MaxChanges
    /\ \E files \in {stFiles} \cup OneFileAway(stFiles, StUniverse, MaxFiles) :
       \E delIndex \in {FALSE, shapeClassesJson.exists} :
          /\ files # stFiles \/ delIndex
          /\ stFiles' = files
          /\ shapeClassesJson' = IF delIndex THEN NoFile ELSE shapeClassesJson
          /\ roots' = IF files = {} THEN roots ELSE roots \cup {StyleRoot}
          /\ since' = IF files = stFiles THEN since ELSE [since EXCEPT !.style = {}]
    /\ changes' = changes + 1
    /\ ret' = NoRet
    /\ item' = NoItem
    /\ UNCHANGED <<fkFiles, tripletsJson, stimClassesJson, trialsJson, obj, removed,
                   written>>

\* the user edits the fake directory and the index file of the fake set
UserEditsFake ==
    /\ changes < MaxChanges
    /\ \E files \in {fkFiles} \cup OneFileAway(fkFiles, FkUniverse, MaxFake) :
       \E delIndex \in {FALSE, stimClassesJson.exists} :
          /\ files # fkFiles \/ delIndex
          /\ fkFiles' = files
          /\ stimClassesJson' = IF delIndex THEN NoFile ELSE stimClassesJson
          /\ roots' = IF files = {} THEN roots ELSE roots \cup {FakeRoot}
          /\ since' = IF files = fkFiles THEN since ELSE [since EXCEPT !.fake = {}]
    /\ changes' = changes + 1
    /\ ret' = NoRet
    /\ item' = NoItem
    /\ UNCHANGED <<stFiles, shapeClassesJson, tripletsJson, trialsJson, obj, removed,
                   written>>

\* ---------------------------------------------------------------- specifications
\* SpecD: GeirhosStyleTransferDataset over the style-transfer set
NextD ==
    \/ \E order \in ListingOrders : NewGeirhosStyleTransferDataset(order)
    \/ UserEditsStyleTransfer

SpecD == InitG /\ [][NextD]_vars

\* SpecG: GeirhosTriplets over the style-transfer set
NextG ==
    \/ \E order \in ListingOrders : NewGeirhosTriplets(order)
    \/ GetitemTuple
    \/ UserEditsStyleTransfer

SpecG == InitG /\ [][NextG]_vars

\* SpecST: the constructors of both classes of the style-transfer set, which
\* share the index file
NextST ==
    \/ NextD
    \/ \E order \in ListingOrders : NewGeirhosTriplets(order)

SpecST == InitG /\ [][NextST]_vars

\* SpecF: the fake set (FakeStimTrials)
NextF ==
    \/ \E order \in ListingOrders : NewFakeStimTrials(order)
    \/ GetitemTuple
    \/ UserEditsFake

SpecF == InitF /\ [][NextF]_vars

\* SpecDIdx: GeirhosStyleTransferDataset read by position
NextDIdx ==
    \/ NextD
    \/ \E idx \in 0..MaxIdx : DatasetGetitem(idx)

SpecDIdx == InitG /\ [][NextDIdx]_vars

\* SpecFIdx: FakeStimTrials read by position
NextFIdx ==
    \/ \E order \in ListingOrders : NewFakeStimTrials(order)
    \/ \E trial \in 0..MaxIdx : FakeGetitemInt(trial)
    \/ UserEditsFake

SpecFIdx == InitF /\ [][NextFIdx]_vars

\* Spec: both sets in one working directory
Init == InitG \/ InitF

Next ==
    \/ NextST
    \/ NextG
    \/ NextF
    \/ \E idx \in 0..MaxIdx : DatasetGetitem(idx)
    \/ \E trial \in 0..MaxIdx : FakeGetitemInt(trial)

Spec == Init /\ [][Next]_vars

\* ---------------------------------------------------------------- properties
IsDataset == obj.class = "GeirhosStyleTransferDataset"
IsTriplets == obj.class = "GeirhosTriplets"
IsTrials == obj.class = "FakeStimTrials"

\* the anchors of the corpus held by the object, and an anchor's entry
Anchors == KeySet(obj.by_image) \ {AllKey}
Entry(a) == Get(obj.by_image, a)
Indexed(a) == HasKey(obj.index, a)
Attr(a) == Get(obj.index, a)

Distinct(t) == \A i, j \in 1..Len(t) : i # j => t[i] # t[j]
NoRepeats(list) == Cardinality(Range(list)) = Len(list)
Sentinels == {<<"x">>, <<"X">>}

\* C1: in GeirhosTriplets every triplet [a, s, t] of an anchor's triplet list
\* and of all_triplets has s # a, t # a and s # t.
C1_TripletsDistinct ==
    IsTriplets =>
        /\ \A a \in Anchors : \A i \in 1..Len(Entry(a).tuples) : Distinct(Entry(a).tuples[i])
        /\ \A i \in 1..Len(obj.all) : Distinct(obj.all[i])

\* C2: in FakeStimTrials every trial [a, s, t, c] of an anchor's trial list
\* and of all_trials has four pairwise distinct elements.
C2_TrialsDistinct ==
    IsTrials =>
        /\ \A a \in Anchors : \A i \in 1..Len(Entry(a).tuples) :
              Len(Entry(a).tuples[i]) = 4 /\ Distinct(Entry(a).tuples[i])
        /\ \A i \in 1..Len(obj.all) : Len(obj.all[i]) = 4 /\ Distinct(obj.all[i])

\* a FakeStimTrials object whose corpus holds trials
C2_Witness == IsTrials /\ obj.all # <<>> /\ \E a \in Anchors : Entry(a).tuples # <<>>

\* C3: in GeirhosTriplets every shape match s of an anchor a has the shape
\* exemplar of a: shape_spec(s) = shape_spec(a).
C3_ShapeMatchSameExemplar ==
    IsTriplets =>
        \A a \in Anchors : \A s \in Range(Entry(a).shape_matches) :
            (Indexed(a) /\ Indexed(s)) => Attr(s).shape_spec = Attr(a).shape_spec

\* C4: in GeirhosTriplets every texture match t of an anchor a has the texture
\* instance of a: texture_spec(t) = texture_spec(a) as a full string.
C4_TextureMatchSameInstance ==
    IsTriplets =>
        \A a \in Anchors : \A t \in Range(Entry(a).texture_matches) :
            (Indexed(a) /\ Indexed(t)) => Attr(t).texture_spec = Attr(a).texture_spec

\* C5: in GeirhosTriplets the attribute that is not matched disagrees with the
\* anchor: a shape match has another texture category, a texture match another shape.
C5_OtherAttributeDiffers ==
    IsTriplets =>
        \A a \in Anchors :
            /\ \A s \in Range(Entry(a).shape_matches) :
                  (Indexed(a) /\ Indexed(s)) => Attr(s).texture # Attr(a).texture
            /\ \A t \in Range(Entry(a).texture_matches) :
                  (Indexed(a) /\ Indexed(t)) => Attr(t).shape # Attr(a).shape

\* the indexed stimuli that agree with a on one attribute and differ on the other two
SameShapeOnly(a) ==
    {b \in KeySet(obj.index) : /\ b # a
                               /\ Attr(b).shape = Attr(a).shape
                               /\ Attr(b).texture # Attr(a).texture
                               /\ Attr(b).color # Attr(a).color}
SameTextureOnly(a) ==
    {b \in KeySet(obj.index) : /\ b # a
                               /\ Attr(b).texture = Attr(a).texture
                               /\ Attr(b).shape # Attr(a).shape
                               /\ Attr(b).color # Attr(a).color}
SameColorOnly(a) ==
    {b \in KeySet(obj.index) : /\ b # a
                               /\ Attr(b).color = Attr(a).color
                               /\ Attr(b).shape # Attr(a).shape
                               /\ Attr(b).texture # Attr(a).texture}

\* C6: in a FakeStimTrials whose trials were generated by the constructor,
\* every indexed stimulus is an anchor and, for each match type T, its T-match
\* list holds exactly (and once each) the indexed stimuli b # a that agree
\* with a on T and differ from a on both other attributes.
C6_FakeMatchListsExact ==
    (IsTrials /\ obj.corpusFrom = "built") =>
        /\ Anchors = KeySet(obj.index)
        /\ \A a \in Anchors :
              /\ Range(Entry(a).shape_matches) = SameShapeOnly(a)
              /\ Range(Entry(a).texture_matches) = SameTextureOnly(a)
              /\ Range(Entry(a).color_matches) = SameColorOnly(a)
              /\ NoRepeats(Entry(a).shape_matches)
              /\ NoRepeats(Entry(a).texture_matches)
              /\ NoRepeats(Entry(a).color_matches)

\* generated trials where an anchor has a match of each type and a stimulus
\* that shares its shape but is no shape match
C6_Witness ==
    /\ IsTrials
    /\ obj.corpusFrom = "built"
    /\ \E a \in Anchors :
          /\ Entry(a).shape_matches # <<>>
          /\ Entry(a).texture_matches # <<>>
          /\ Entry(a).color_matches # <<>>
    /\ \E a, b \in Anchors :
          /\ a # b
          /\ Attr(a).shape = Attr(b).shape
          /\ b \notin Range(Entry(a).shape_matches)

\* every id of an entry's match lists and tuples
EntryIds(e) ==
    Range(e.shape_matches) \cup Range(e.texture_matches) \cup Range(e.color_matches)
        \cup UNION {Range(e.tuples[i]) : i \in 1..Len(e.tuples)}

\* C7: every id in a match list or a tuple held by a GeirhosTriplets or
\* FakeStimTrials object is a key of that object's index, whether index and
\* corpus were built or loaded, and getitem on a tuple of all_triplets /
\* all_trials never hits an unknown id.
C7_IdsAreIndexed ==
    (IsTriplets \/ IsTrials) =>
        /\ \A a \in Anchors : \A b \in EntryIds(Entry(a)) : Indexed(b)
        /\ \A i \in 1..Len(obj.all) : \A b \in Range(obj.all[i]) : Indexed(b)
        /\ ret # "KeyError"

\* the tuples of the Cartesian product of a's match lists that repeat no stimulus
FilteredProduct(a) ==
    IF IsTrials
    THEN {t \in {<<a, s, x, c>> : s \in Range(Entry(a).shape_matches),
                                  x \in Range(Entry(a).texture_matches),
                                  c \in Range(Entry(a).color_matches)} : Distinct(t)}
    ELSE {t \in {<<a, s, x>> : s \in Range(Entry(a).shape_matches),
                               x \in Range(Entry(a).texture_matches)} : Distinct(t)}

\* the size of the product of a's match lists, and how many of its
\* combinations repeat a stimulus
ProductSize(a) ==
    Len(Entry(a).shape_matches) * Len(Entry(a).texture_matches)
        * (IF IsTrials THEN Len(Entry(a).color_matches) ELSE 1)
Repeating(a) ==
    LET sm == Entry(a).shape_matches
        tm == Entry(a).texture_matches
        cm == Entry(a).color_matches
    IN  IF IsTrials
        THEN Cardinality({ijk \in (1..Len(sm)) \X (1..Len(tm)) \X (1..Len(cm)) :
                 ~Distinct(<<a, sm[ijk[1]], tm[ijk[2]], cm[ijk[3]]>>)})
        ELSE Cardinality({ij \in (1..Len(sm)) \X (1..Len(tm)) :
                 ~Distinct(<<a, sm[ij[1]], tm[ij[2]]>>)})

RECURSIVE SumOver(_, _)
SumOver(as, n) ==
    IF as = <<>> THEN n
    ELSE SumOver(Tail(as), n + ProductSize(Head(as)) - Repeating(Head(as)))

\* C8: a freshly built corpus holds, for every anchor, exactly the Cartesian
\* product of the anchor's match lists without the tuples that repeat a
\* stimulus, and the total count is the sum over the anchors of the product of
\* the list sizes minus the tuples removed.
C8_CorpusIsFilteredProduct ==
    ((IsTriplets \/ IsTrials) /\ obj.corpusFrom = "built") =>
        /\ \A a \in Anchors : Range(Entry(a).tuples) = FilteredProduct(a)
        /\ Len(obj.all) = SumOver(Keys(Pop(obj.by_image, AllKey)), 0)

\* C9: every stimulus of a style-transfer index built from storage has
\* shape # texture, shape being the enclosing directory and texture the texture
\* instance without digits; no file with shape = texture is in the index.
C9_IndexIsCueConflict ==
    ((IsDataset \/ IsTriplets) /\ obj.indexFrom = "built") =>
        \A i \in 1..Len(obj.index) :
            LET e == obj.index[i].val
            IN  /\ e.shape # e.texture
                /\ e.shape = Split(e.dir, "/")[3]
                /\ e.texture = StripDigits(e.texture_spec)
                /\ StripDigits(ReplacePng(Split(Last(Split(e.dir, "/")), "-")[2])) # e.shape

\* an index built from a storage that holds a file with shape = texture
C9_Witness ==
    /\ IsDataset \/ IsTriplets
    /\ obj.indexFrom = "built"
    /\ obj.index # <<>>
    /\ changes = 0
    /\ \E f \in stFiles : StripDigits(ReplacePng(Split(f.name, "-")[2])) = f.dir

\* a file name with a field that is the sentinel marker
SentinelName(n) == \E field \in Range(Split(ReplacePng(n), "_")) : field \in Sentinels

\* C10: a construction that builds the fake index from storage leaves an index
\* in which no shape, texture or color is 'x' or 'X'; every file whose name has
\* a sentinel field is deleted from storage and is not in the index.
C10_SentinelExcluded ==
    [][(~stimClassesJson.exists /\ stimClassesJson'.exists) =>
          /\ obj'.class = "FakeStimTrials" /\ obj'.indexFrom = "built"
          /\ \A i \in 1..Len(obj'.index) :
                /\ obj'.index[i].val.shape \notin Sentinels
                /\ obj'.index[i].val.texture \notin Sentinels
                /\ obj'.index[i].val.color \notin Sentinels
          /\ \A n \in fkFiles :
                SentinelName(n) => (n \notin fkFiles' /\ ~HasKey(obj'.index, n))]_vars

\* a fake index built from a storage that held sentinel-marked files
C10_Witness ==
    /\ IsTrials
    /\ obj.indexFrom = "built"
    /\ obj.index # <<>>
    /\ removed # {}

\* a constructor call returned an object in this step
Constructed == changes' = changes /\ ret' = NoRet
IsStyle(o) == o.class \in {"GeirhosStyleTransferDataset", "GeirhosTriplets"}
HasCorpus(o) == o.class \in {"GeirhosTriplets", "FakeStimTrials"}

\* C11: a corpus file, once written, holds the builder's flattened list under
\* "all" and every anchor's entry; it is never changed afterwards; a later
\* construction that loads it has the same all_triplets / all_trials and the
\* same entry for every anchor as the construction before it, and its
\* per-anchor mapping has no key "all".
C11_ReloadRoundTrip ==
    [][/\ \A f \in {<<tripletsJson, tripletsJson'>>, <<trialsJson, trialsJson'>>} :
             /\ f[1].exists => f[2] = f[1]
             /\ (~f[1].exists /\ f[2].exists) =>
                   /\ Get(f[2].data, AllKey) = obj'.all
                   /\ Pop(f[2].data, AllKey) = Pop(obj'.by_image, AllKey)
       /\ (Constructed /\ HasCorpus(obj') /\ obj'.corpusFrom = "loaded") =>
             /\ AllKey \notin KeySet(obj'.by_image)
             /\ (obj.class = obj'.class) =>
                   /\ obj'.all = obj.all
                   /\ KeySet(obj'.by_image) = Anchors
                   /\ \A a \in Anchors : Get(obj'.by_image, a) = Entry(a)]_vars

\* a GeirhosTriplets that loaded a corpus with triplets
C11_Witness ==
    /\ IsTriplets
    /\ obj.corpusFrom = "loaded"
    /\ obj.all # <<>>
    /\ \E a \in Anchors : Entry(a).tuples # <<>>

\* C12: no key of an index is "all" (every key ends with ".png"); a built
\* corpus holds the flattened list under "all" next to one entry per indexed
\* stimulus, each still the entry of its own anchor, and a loaded corpus lost
\* exactly the one entry "all" of the file.
C12_AllKeyIsNoStimulus ==
    /\ \A k \in KeySet(obj.index) : k # AllKey /\ EndsWith(k, <<PNG>>)
    /\ (HasCorpus(obj) /\ obj.corpusFrom = "built") =>
          /\ HasKey(obj.by_image, AllKey)
          /\ Get(obj.by_image, AllKey) = obj.all
          /\ Len(obj.by_image) = Len(obj.index) + 1
          /\ \A k \in KeySet(obj.index) :
                /\ HasKey(obj.by_image, k)
                /\ \A i \in 1..Len(Entry(k).tuples) : Entry(k).tuples[i][1] = k
    /\ (IsTrials /\ obj.corpusFrom = "loaded") =>
          Len(obj.by_image) = Len(trialsJson.data) - 1
    /\ (IsTriplets /\ obj.corpusFrom = "loaded") =>
          Len(obj.by_image) = Len(tripletsJson.data) - 1

\* a FakeStimTrials that wrote "all" next to the entries of its anchors
C12_Witness ==
    /\ IsTrials
    /\ obj.corpusFrom = "built"
    /\ Len(obj.index) >= 2
    /\ obj.all # <<>>

\* C13: when a constructor builds the index again (index file absent) and an
\* index was already built since the user last changed the stimulus files, the
\* new index has the same ids with the same attribute records as the index of
\* the object before it, also when a build in between deleted sentinel files.
C13_RebuildSameIndex ==
    [][/\ (~stimClassesJson.exists /\ stimClassesJson'.exists
             /\ "built" \in since.fake /\ IsTrials) =>
             /\ KeySet(obj'.index) = KeySet(obj.index)
             /\ \A k \in KeySet(obj.index) : Get(obj'.index, k) = Attr(k)
       /\ (~shapeClassesJson.exists /\ shapeClassesJson'.exists
             /\ "built" \in since.style /\ IsStyle(obj)) =>
             /\ KeySet(obj'.index) = KeySet(obj.index)
             /\ \A k \in KeySet(obj.index) : Get(obj'.index, k) = Attr(k)]_vars

\* the fake index was rebuilt from storage that only a build changed, by
\* deleting sentinel files
C13_Witness ==
    /\ IsTrials
    /\ obj.indexFrom = "built"
    /\ obj.index # <<>>
    /\ {"rebuilt", "removed"} \subseteq since.fake

\* C14: a positional getitem that returns a name returns the idx-th name of
\* the sorted key set: exactly idx keys of the index are smaller than it (so
\* the listing order at build time does not show).
C14_PositionalIsSorted ==
    (item # NoItem) =>
        Cardinality({k \in KeySet(obj.index) : StrLess(k, item.name)}) = item.idx

\* C15: in a state where a storage root does not exist and no index file of
\* that set exists, no step of the program creates the index file or makes an
\* object of that set.
C15_MissingRootIsFatal ==
    [][/\ (FakeRoot \notin roots /\ ~stimClassesJson.exists /\ changes' = changes) =>
             /\ ~stimClassesJson'.exists
             /\ obj' = obj \/ obj'.class # "FakeStimTrials"
       /\ (StyleRoot \notin roots /\ ~shapeClassesJson.exists /\ changes' = changes) =>
             /\ ~shapeClassesJson'.exists
             /\ obj' = obj \/ ~IsStyle(obj')]_vars

\* C16: a constructor call that finds the index file of its set leaves the
\* file and the stimulus files as they are, calls no os.remove, does not
\* write the index file and holds the index of the file; no step of the
\* program changes an index file that exists.
C16_LoadedIndexUntouched ==
    [][/\ (stimClassesJson.exists /\ changes' = changes) =>
             /\ stimClassesJson' = stimClassesJson
             /\ fkFiles' = fkFiles
             /\ (Constructed /\ obj'.class = "FakeStimTrials") =>
                   /\ obj'.index = stimClassesJson.data
                   /\ obj'.indexFrom = "loaded"
                   /\ removed' = {}
                   /\ StimClassesFile \notin written'
       /\ (shapeClassesJson.exists /\ changes' = changes) =>
             /\ shapeClassesJson' = shapeClassesJson
             /\ stFiles' = stFiles
             /\ (Constructed /\ IsStyle(obj')) =>
                   /\ obj'.index = shapeClassesJson.data
                   /\ obj'.indexFrom = "loaded"
                   /\ removed' = {}
                   /\ ShapeClassesFile \notin written']_vars

\* a FakeStimTrials that loaded its index while storage, not changed since,
\* held a sentinel-marked file
C16_Witness ==
    /\ IsTrials
    /\ obj.indexFrom = "loaded"
    /\ "loaded" \in since.fake
    /\ \E n \in fkFiles : SentinelName(n)

\* the first position of x in a list
Pos(list, x) == CHOOSE i \in 1..Len(list) : list[i] = x /\ \A j \in 1..(i - 1) : list[j] # x

\* the elements of list are keys and come in the order of keys
InOrderOf(list, keys) ==
    /\ Range(list) \subseteq Range(keys)
    /\ \A i, j \in 1..Len(list) : i < j => Pos(keys, list[i]) < Pos(keys, list[j])

\* the loop position of a tuple of anchor a: shape match outer, texture match
\* middle, color match inner
LoopPos(a, t) ==
    <<Pos(Entry(a).shape_matches, t[2]), Pos(Entry(a).texture_matches, t[3]),
      IF Len(t) = 4 THEN Pos(Entry(a).color_matches, t[4]) ELSE 1>>
LexLess(p, q) ==
    \/ p[1] < q[1]
    \/ p[1] = q[1] /\ p[2] < q[2]
    \/ p[1] = q[1] /\ p[2] = q[2] /\ p[3] < q[3]

RECURSIVE ConcatTuples(_)
ConcatTuples(anchors) ==
    IF anchors = <<>> THEN <<>>
    ELSE Entry(Head(anchors)).tuples \o ConcatTuples(Tail(anchors))

\* C17: in a corpus generated by the constructor, the tuples of an anchor
\* come in nested loop order (shape match outer, texture match middle, color
\* match inner, each in match-list order), the anchors come in the key order
\* of the index, all_triplets / all_trials is the concatenation of their
\* tuple lists in that order, and every match list is in the key order of
\* the index, which is the scan order of the build of the index.
C17_GenerationOrder ==
    (HasCorpus(obj) /\ obj.corpusFrom = "built") =>
        /\ Keys(Pop(obj.by_image, AllKey)) = Keys(obj.index)
        /\ obj.all = ConcatTuples(Keys(obj.index))
        /\ \A a \in Anchors :
              /\ \A i, j \in 1..Len(Entry(a).tuples) :
                    i < j => LexLess(LoopPos(a, Entry(a).tuples[i]),
                                     LoopPos(a, Entry(a).tuples[j]))
              /\ InOrderOf(Entry(a).shape_matches, Keys(obj.index))
              /\ InOrderOf(Entry(a).texture_matches, Keys(obj.index))
              /\ InOrderOf(Entry(a).color_matches, Keys(obj.index))

\* C18: when a construction that loads the corpus follows, with the same
\* index, a construction of the same class that generated it, both objects
\* have the same triplets_by_image / trials_by_image, whose keys are the ids
\* of the index, and the same all_triplets / all_trials.
C18_BuiltAndLoadedAgree ==
    [][(Constructed /\ HasCorpus(obj) /\ obj'.class = obj.class
          /\ obj.corpusFrom = "built" /\ obj'.corpusFrom = "loaded"
          /\ obj'.index = obj.index) =>
          /\ KeySet(obj.by_image) = KeySet(obj.index)
          /\ KeySet(obj'.by_image) = KeySet(obj'.index)
          /\ obj'.by_image = obj.by_image
          /\ obj'.all = obj.all]_vars

\* C19: among the anchors of a corpus, b is a shape (texture, color) match of
\* a exactly when a is a shape (texture, color) match of b.
C19_MatchSymmetric ==
    HasCorpus(obj) =>
        \A a, b \in Anchors :
            /\ b \in Range(Entry(a).shape_matches) <=> a \in Range(Entry(b).shape_matches)
            /\ b \in Range(Entry(a).texture_matches) <=> a \in Range(Entry(b).texture_matches)
            /\ b \in Range(Entry(a).color_matches) <=> a \in Range(Entry(b).color_matches)

\* C20: in FakeStimTrials the three match lists of an anchor are pairwise
\* disjoint, no combination of one match of each type repeats a stimulus, and
\* the anchor has exactly |shape matches| * |texture matches| * |color matches|
\* trials.
C20_DisjointListsFullProduct ==
    IsTrials =>
        \A a \in Anchors :
            /\ Range(Entry(a).shape_matches) \cap Range(Entry(a).texture_matches) = {}
            /\ Range(Entry(a).shape_matches) \cap Range(Entry(a).color_matches) = {}
            /\ Range(Entry(a).texture_matches) \cap Range(Entry(a).color_matches) = {}
            /\ Repeating(a) = 0
            /\ Len(Entry(a).tuples) = ProductSize(a)

\* an anchor with two trials that differ in the shape match only
C20_Witness ==
    /\ IsTrials
    /\ \E a \in Anchors :
          /\ Len(Entry(a).tuples) >= 2
          /\ Len(Entry(a).shape_matches) >= 2
          /\ Entry(a).texture_matches # <<>>
          /\ Entry(a).color_matches # <<>>

====
